---- MODULE Spec2Model ----
(***************************************************************************)
(* Pedersen::hash_uncompressed                                             *)
(* (circuits/core/src/algorithms/pedersen/hash_uncompressed.rs).           *)
(*                                                                         *)
(* A call is modelled step by step: creation of the constant false wire,  *)
(* the capacity check, the padding, then the lazy iterator chain           *)
(* chunks -> zip_eq -> flat_map(collect) -> fold, one window and one       *)
(* addition at a time.  The circuit environment is a record of the four    *)
(* counters that assert_scope! reads.  The group is modelled as the        *)
(* cyclic group Z_GroupOrder; the costs of the gadgets the hash calls      *)
(* (Group::ternary, Group + Group, Boolean::constant, Group::zero) are     *)
(* the per-operation costs that reproduce the fixtures of the tests.       *)
(***************************************************************************)
EXTENDS Integers, Sequences, FiniteSets

\* ---- bounds of the model -------------------------------------------------
MaxWindows == 2
MaxWindowSize == 2
MaxCapacity == 4

\* ---- the circuit types ---------------------------------------------------
Modes == {"Constant", "Public", "Private"}

GroupOrder == 251

BoolWires == [value : BOOLEAN, mode : Modes]

ZeroCost == [constants |-> 0, public |-> 0, private |-> 0, constraints |-> 0]

CostPlus(c, d) ==
    [constants   |-> c.constants + d.constants,
     public      |-> c.public + d.public,
     private     |-> c.private + d.private,
     constraints |-> c.constraints + d.constraints]

CostMinus(c, d) ==
    [constants   |-> c.constants - d.constants,
     public      |-> c.public - d.public,
     private     |-> c.private - d.private,
     constraints |-> c.constraints - d.constraints]

IsConstant(w) == w.mode = "Constant"

\* Boolean::constant(value): a constant wire, no allocation in the scope.
BooleanConstant(b) == [out |-> [value |-> b, mode |-> "Constant"], cost |-> ZeroCost]

\* Group::zero(): the identity, a constant wire, no allocation in the scope.
GroupZero == [value |-> 0, mode |-> "Constant"]

\* Group::ternary(condition, first, second) for constant first and second
\* (the only shape the hash uses): a constant condition picks one operand,
\* a variable condition gives a linear combination of the condition.
GroupTernary(condition, first, second) ==
    [out  |-> [value |-> IF condition.value THEN first.value ELSE second.value,
               mode  |-> IF IsConstant(condition) THEN "Constant" ELSE condition.mode],
     cost |-> ZeroCost]

\* Group + Group: the sum is a constant when both operands are, a private
\* variable otherwise; two constants cost 4 constants, a constant and a
\* variable 2 constants, 3 private variables and 3 constraints, two
\* variables 2 constants, 6 private variables and 6 constraints (the
\* fixtures 4L / 0 and 2L / 6L-3 of the tests).
GroupAdd(a, b) ==
    [out  |-> [value |-> (a.value + b.value) % GroupOrder,
               mode  |-> IF IsConstant(a) /\ IsConstant(b) THEN "Constant" ELSE "Private"],
     cost |-> IF IsConstant(a) /\ IsConstant(b)
                THEN [constants |-> 4, public |-> 0, private |-> 0, constraints |-> 0]
                ELSE IF IsConstant(a) \/ IsConstant(b)
                  THEN [constants |-> 2, public |-> 0, private |-> 3, constraints |-> 3]
                  ELSE [constants |-> 2, public |-> 0, private |-> 6, constraints |-> 6]]

RECURSIVE Pow(_, _)
Pow(b, e) == IF e = 0 THEN 1 ELSE (b * Pow(b, e - 1)) % GroupOrder

\* self.bases[w][p] (0-based): window w holds the powers 2^p of its generator.
Base(w, p) == [value |-> (Pow(3, w + 1) * Pow(2, p)) % GroupOrder, mode |-> "Constant"]

\* ---- std helpers ----------------------------------------------------------
Min(a, b) == IF a < b THEN a ELSE b

\* Vec::resize(new_len, value)
Resize(s, new_len, value) ==
    IF new_len <= Len(s)
      THEN SubSeq(s, 1, new_len)
      ELSE s \o [i \in 1..(new_len - Len(s)) |-> value]

\* faulty variant: slice::rchunks(size), the chunks taken from the end
RChunks(n, size) ==
    [i \in 1..((n + size - 1) \div size) |->
        [start |-> IF n - i * size < 0 THEN 0 ELSE n - i * size,
         len   |-> Min(size, n - (i - 1) * size)]]

\* slice::chunks(size) on a slice of length n: the chunks as (start, len),
\* the last one possibly shorter.
Chunks(n, size) ==
    [i \in 1..((n + size - 1) \div size) |->
        [start |-> (i - 1) * size, len |-> Min(size, n - (i - 1) * size)]]

VARIABLES NUM_WINDOWS, WINDOW_SIZE, input, cow, pc, chunk_i, selected, acc,
          result, circuit, scope_start, adds, first, relation

vars == <<NUM_WINDOWS, WINDOW_SIZE, input, cow, pc, chunk_i, selected, acc,
          result, circuit, scope_start, adds, first, relation>>

Capacity == WINDOW_SIZE * NUM_WINDOWS

NoResult == [value |-> -1, mode |-> "None"]

NoCall == [input |-> <<>>, result |-> NoResult, cost |-> ZeroCost, made |-> FALSE]

\* the counters of the current scope (Circuit::scope + assert_scope!)
ScopeCost == CostMinus(circuit, scope_start)

\* ---- the pieces of hash_uncompressed --------------------------------------
\* faulty variant: the padding wire allocated as a private variable
private_false == [value |-> FALSE, mode |-> "Private"]

\* line 23
constant_false == BooleanConstant(FALSE).out

\* faulty variant: the capacity check off by one
FitsCapacityOffByOne(n) == n <= WINDOW_SIZE * NUM_WINDOWS + 1

\* line 26
FitsCapacity(n) == n <= WINDOW_SIZE * NUM_WINDOWS

\* faulty variant: the false wires put in front of the input
PadLeft(s) ==
    IF Len(s) >= WINDOW_SIZE * NUM_WINDOWS
      THEN Resize(s, WINDOW_SIZE * NUM_WINDOWS, constant_false)
      ELSE [i \in 1..(WINDOW_SIZE * NUM_WINDOWS - Len(s)) |-> constant_false] \o s

\* faulty variant: the input resized to one window only
PadOneWindow(s) == Resize(s, WINDOW_SIZE, constant_false)

\* line 28
Pad(s) == Resize(s, WINDOW_SIZE * NUM_WINDOWS, constant_false)

\* faulty variant: the operands of the selection swapped
SelectSwapped(bit, base) == GroupTernary(bit, GroupZero, base)

\* line 40
Select(bit, base) == GroupTernary(bit, base, GroupZero)

\* faulty variants: the fold started from the accumulator of the previous
\* call, or from an allocated private zero
FoldInitStale == acc

FoldInitPrivate == [value |-> 0, mode |-> "Private"]

\* line 43, the initial value of the fold
FoldInit == GroupZero

\* faulty variants: the accumulator dropped, or the addition skipped when
\* the selected element is the identity
FoldStepDrop(a, x) == [out |-> x, cost |-> ZeroCost]

FoldStepSkipZero(a, x) ==
    IF x.value = 0 THEN [out |-> a, cost |-> ZeroCost] ELSE GroupAdd(a, x)

\* line 43, the closure of the fold
FoldStep(a, x) == GroupAdd(a, x)

\* ---- initial state --------------------------------------------------------
Inputs(maxlen) == UNION {[1..n -> BoolWires] : n \in 0..maxlen}

Init ==
    /\ NUM_WINDOWS \in 1..MaxWindows
    /\ WINDOW_SIZE \in 1..MaxWindowSize
    /\ WINDOW_SIZE * NUM_WINDOWS <= MaxCapacity
    /\ input \in Inputs(WINDOW_SIZE * NUM_WINDOWS + 1)
    /\ cow = <<>>
    /\ pc = "call"
    /\ chunk_i = 0
    /\ selected = <<>>
    /\ acc = GroupZero
    /\ result = NoResult
    /\ circuit = ZeroCost
    /\ scope_start = ZeroCost
    /\ adds = <<>>
    /\ first = NoCall
    /\ relation = "none"

\* ---- actions --------------------------------------------------------------
\* lines 22-25: the scope opens, constant_false is created, the Cow borrows.
Enter ==
    /\ pc = "call"
    /\ pc' = "check"
    /\ scope_start' = circuit
    /\ circuit' = CostPlus(circuit, BooleanConstant(FALSE).cost)
    /\ cow' = input
    /\ result' = NoResult
    /\ adds' = <<>>
    /\ selected' = <<>>
    /\ chunk_i' = 0
    /\ UNCHANGED <<NUM_WINDOWS, WINDOW_SIZE, input, acc, first, relation>>

\* line 30: E::halt
Halt ==
    /\ pc = "check"
    /\ ~FitsCapacity(Len(cow))
    /\ pc' = "halted"
    /\ UNCHANGED <<NUM_WINDOWS, WINDOW_SIZE, input, cow, chunk_i, selected, acc,
                   result, circuit, scope_start, adds, first, relation>>

\* line 28, then the iterator chain is built and fold starts (line 43)
PadInput ==
    /\ pc = "check"
    /\ FitsCapacity(Len(cow))
    /\ cow' = Pad(cow)
    /\ acc' = FoldInit
    /\ chunk_i' = 0
    /\ selected' = <<>>
    /\ pc' = "fold"
    /\ UNCHANGED <<NUM_WINDOWS, WINDOW_SIZE, input, result, circuit, scope_start,
                   adds, first, relation>>

\* the Vec collected by the flat_map closure for chunk c paired with window w
\* (lines 37-42); only called when the inner zip_eq does not panic
Collected(c, w) ==
    [j \in 1..c.len |->
        [sel    |-> Select(cow[c.start + j], Base(w, j - 1)),
         bit    |-> c.start + j - 1,
         window |-> w,
         pos    |-> j - 1]]

RECURSIVE SumCost(_)
SumCost(s) == IF s = <<>> THEN ZeroCost ELSE CostPlus(Head(s).sel.cost, SumCost(Tail(s)))

\* lines 35-42: flat_map asks the outer zip_eq for the next (bits, powers)
NextChunk ==
    /\ pc = "fold"
    /\ selected = <<>>
    /\ LET chunks == Chunks(Len(cow), WINDOW_SIZE)
           more_chunks == chunk_i < Len(chunks)
           more_bases  == chunk_i < NUM_WINDOWS
       IN  IF more_chunks /\ more_bases
             THEN LET c == chunks[chunk_i + 1]
                  IN  IF c.len = WINDOW_SIZE
                        THEN /\ selected' = Collected(c, chunk_i)
                             /\ circuit' = CostPlus(circuit, SumCost(Collected(c, chunk_i)))
                             /\ chunk_i' = chunk_i + 1
                             /\ pc' = "fold"
                             /\ result' = result
                        ELSE /\ pc' = "panicked"
                             /\ UNCHANGED <<selected, circuit, chunk_i, result>>
             ELSE IF ~more_chunks /\ ~more_bases
               THEN /\ pc' = "done"
                    /\ result' = acc
                    /\ UNCHANGED <<selected, circuit, chunk_i>>
               ELSE /\ pc' = "panicked"
                    /\ UNCHANGED <<selected, circuit, chunk_i, result>>
    /\ UNCHANGED <<NUM_WINDOWS, WINDOW_SIZE, input, cow, acc, scope_start, adds,
                   first, relation>>

\* line 43: acc + x for the next collected element
Accumulate ==
    /\ pc = "fold"
    /\ selected # <<>>
    /\ LET x == Head(selected)
           r == FoldStep(acc, x.sel.out)
       IN  /\ acc' = r.out
           /\ circuit' = CostPlus(circuit, r.cost)
           /\ adds' = Append(adds, [bit |-> x.bit, window |-> x.window, pos |-> x.pos,
                                    operand |-> x.sel.out.value, before |-> acc.value,
                                    cost |-> r.cost])
    /\ selected' = Tail(selected)
    /\ UNCHANGED <<NUM_WINDOWS, WINDOW_SIZE, input, cow, pc, chunk_i, result,
                   scope_start, first, relation>>

\* the caller's next call on the same context and the same parameters
\* (the loop of check_hash_uncompressed): the same input, the input
\* explicitly padded with false bits up to the capacity, the input with
\* the same modes and other bit values, or an input longer than the capacity
Revalued(s) ==
    {t \in [1..Len(s) -> BoolWires] : t # s /\ \A i \in 1..Len(s) : t[i].mode = s[i].mode}

Extended(s, n, m) == s \o [i \in 1..(n - Len(s)) |-> [value |-> FALSE, mode |-> m]]

NextCall ==
    /\ pc = "done"
    /\ ~first.made
    /\ first' = [input |-> input, result |-> result, cost |-> ScopeCost, made |-> TRUE]
    /\ \/ /\ relation' = "same"
          /\ input' = input
       \/ /\ Len(input) < Capacity
          /\ relation' = "padded"
          /\ \E m \in Modes : input' = Extended(input, Capacity, m)
       \/ /\ relation' = "revalued"
          /\ input' \in Revalued(input)
       \/ /\ relation' = "overlong"
          /\ input' = Extended(input, Capacity + 1, "Private")
    /\ pc' = "call"
    /\ UNCHANGED <<NUM_WINDOWS, WINDOW_SIZE, cow, chunk_i, selected, acc, result,
                   circuit, scope_start, adds>>

Next == Enter \/ Halt \/ PadInput \/ NextChunk \/ Accumulate \/ NextCall

Spec == Init /\ [][Next]_vars

\* one call in isolation; it is synchronous and never blocks or suspends, so
\* every step of it is eventually taken
Call == Enter \/ Halt \/ PadInput \/ NextChunk \/ Accumulate

CallSpec == Init /\ [][Call]_vars /\ WF_vars(Call)

\* ---- the reference (non-circuit) Pedersen hash ----------------------------
\* sum over windows w and positions p of bases[w][p] where bit w*WINDOW_SIZE+p
\* is true, of the identity where it is false
RECURSIVE ReferenceSum(_, _)
ReferenceSum(bits, k) ==
    IF k = 0 THEN 0
    ELSE LET w == (k - 1) \div WINDOW_SIZE
             p == (k - 1) % WINDOW_SIZE
         IN  (ReferenceSum(bits, k - 1)
                + (IF bits[k].value THEN Base(w, p).value ELSE 0)) % GroupOrder

ReferenceHash(bits) == ReferenceSum(bits, NUM_WINDOWS * WINDOW_SIZE)

\* ---- helpers of the properties --------------------------------------------
AllConstant(s) == \A i \in 1..Len(s) : IsConstant(s[i])

NoneConstant(s) == \A i \in 1..Len(s) : ~IsConstant(s[i])

SomeVariable(s) == \E i \in 1..Len(s) : ~IsConstant(s[i])

MixedValues(s) == (\E i \in 1..Len(s) : s[i].value) /\ (\E i \in 1..Len(s) : ~s[i].value)

TwoByTwo == NUM_WINDOWS = 2 /\ WINDOW_SIZE = 2

\* the additions of the log that belong to positions added by the padding
PaddedAdds == {k \in 1..Len(adds) : adds[k].bit >= Len(input)}

\* ---- properties -----------------------------------------------------------

\* C1: a completed call on an input of exactly NUM_WINDOWS*WINDOW_SIZE bits,
\* in any modes, returns the reference Pedersen hash of the bit values.
C1_FunctionalEquivalence ==
    (pc = "done" /\ Len(input) = Capacity) => result.value = ReferenceHash(input)

C1_Witness ==
    /\ pc = "done" /\ TwoByTwo /\ Len(input) = Capacity
    /\ MixedValues(input) /\ SomeVariable(input) /\ result.value # 0

\* C2: the call on a short input returns the same value as the call on the
\* same bits followed by false bits up to the capacity.
C2_PaddingEquivalence ==
    (pc = "done" /\ relation = "padded") => result.value = first.result.value

C2_Witness ==
    /\ pc = "done" /\ relation = "padded" /\ TwoByTwo
    /\ Len(first.input) \in 1..(Capacity - 1)
    /\ \E i \in 1..Len(first.input) : first.input[i].value

\* C3: a call halts exactly when the input is longer than the capacity; an
\* input of length 0..capacity never panics in the chunk/base pairing, never
\* gets stuck, and completes with a result after capacity additions; an
\* over-long input never yields a result.
C3_Safety ==
    /\ pc # "panicked"
    /\ pc = "halted" => Len(input) > Capacity
    /\ pc \in {"fold", "done"} => Len(input) <= Capacity
    /\ Len(input) > Capacity => (pc \in {"call", "check", "halted"} /\ (pc # "call" => result = NoResult))
    /\ pc = "done" => (result # NoResult /\ Len(adds) = Capacity)

C3_OnlyFailure ==
    /\ []C3_Safety
    /\ <>(pc = "halted" \/ (pc = "done" /\ result # NoResult))

C3_Witness ==
    /\ pc = "halted" /\ Len(input) = Capacity + 1 /\ result = NoResult

\* C4: a call on an over-long input leaves the counters of the context as
\* they were before the call, at every step of the call.
C4_NoPartialFailure ==
    /\ (Len(input) > Capacity /\ pc # "call") => ScopeCost = ZeroCost
    /\ (pc = "halted" /\ relation = "overlong") => circuit = first.cost
    /\ (pc = "halted" /\ relation = "none") => circuit = ZeroCost

C4_Witness ==
    /\ pc = "halted" /\ relation = "overlong" /\ first.cost.constraints > 0

\* C5 as stated: any input with at least one public or private bit costs
\* 6L-3 constraints and 2L constants.
C5_Original ==
    (pc = "done" /\ SomeVariable(input)) =>
        /\ ScopeCost.constraints = 6 * Capacity - 3
        /\ ScopeCost.constants = 2 * Capacity

\* C5 amended: an input of exactly L bits, none of them fixed (each public
\* or private, in any combination and with any values), costs 6L-3
\* constraints and 2L constants.
C5_VariableCost ==
    (pc = "done" /\ Len(input) = Capacity /\ NoneConstant(input)) =>
        /\ ScopeCost.constraints = 6 * Capacity - 3
        /\ ScopeCost.constants = 2 * Capacity

C5_Witness ==
    /\ pc = "done" /\ TwoByTwo /\ Len(input) = Capacity /\ NoneConstant(input)
    /\ \E i \in 1..Len(input) : input[i].mode = "Public"
    /\ \E i \in 1..Len(input) : input[i].mode = "Private"
    /\ MixedValues(input)

\* C6: an input of exactly L fixed bits costs 0 constraints, no public and no
\* private variable and 4L constants, whatever the values.
C6_ConstantCost ==
    (pc = "done" /\ Len(input) = Capacity /\ AllConstant(input)) =>
        ScopeCost = [constants |-> 4 * Capacity, public |-> 0, private |-> 0,
                     constraints |-> 0]

C6_Witness ==
    /\ pc = "done" /\ TwoByTwo /\ Len(input) = Capacity /\ AllConstant(input)
    /\ MixedValues(input)

\* C7: a call on an input with the same length and modes as an earlier one
\* and other bit values has the same four counters as the earlier call.
C7_ValueIndependentCost ==
    (pc = "done" /\ relation = "revalued") => ScopeCost = first.cost

C7_Witness ==
    /\ pc = "done" /\ relation = "revalued" /\ TwoByTwo
    /\ SomeVariable(input) /\ ~AllConstant(input) /\ ~NoneConstant(input)
    /\ result.value # first.result.value

C10_AccumulationOrder ==
    /\ \A k \in 1..Len(adds) :
          /\ adds[k].bit = k - 1
          /\ adds[k].window = (k - 1) \div WINDOW_SIZE
          /\ adds[k].pos = (k - 1) % WINDOW_SIZE
          /\ adds[k].operand = (IF cow[k].value
                                  THEN Base((k - 1) \div WINDOW_SIZE, (k - 1) % WINDOW_SIZE).value
                                  ELSE 0)
          /\ adds[k].before = (IF k = 1 THEN 0
                               ELSE (adds[k - 1].before + adds[k - 1].operand) % GroupOrder)
    /\ pc = "done" => Len(adds) = Capacity

C10_Witness ==
    /\ pc = "done" /\ TwoByTwo /\ Len(adds) = 4
    /\ \A k \in 1..4 : cow[k].value

====
